---------------------------- MODULE Spec2Model ----------------------------
(***************************************************************************)
(* Model of scripts/validate_tokens.py: the token-list validator.          *)
(*                                                                         *)
(* JSON5 documents are modelled as tagged values; Python strings            *)
(* are sequences of one-character strings, so that the address pattern,    *)
(* str.strip() and string comparison are computed character by character.  *)
(* A Python call that may raise is modelled as a record with a "raised"    *)
(* field naming the exception type ("" when the call returns).             *)
(***************************************************************************)
EXTENDS Integers, Sequences, FiniteSets, TLC

(***************************************************************************)
(* Module constants of validate_tokens.py                                  *)
(***************************************************************************)
EXPECTED_CHAIN_ID == 143
MIN_DECIMALS == 0
MAX_DECIMALS == 36
\* the {40} of the address pattern
ADDRESS_HEX_DIGITS == 40

\* attempts of the fetch_token_*_with_retry helpers (utils.web3)
RetryBudget == 3

\* largest number of token directories in mainnet/
MaxDirs == 2

REQUIRED_FIELDS == <<"chainId", "address", "name", "symbol", "decimals">>

\* ALLOWED_EXTENSIONS: tag -> required Python type
ALLOWED_EXTENSIONS == [coinGeckoId |-> "str"]

(***************************************************************************)
(* Strings                                                                 *)
(***************************************************************************)
Rep(c, n) == [i \in 1..n |-> c]

NL == "\n"

ZERO_ADDRESS == <<"0", "x">> \o Rep("0", ADDRESS_HEX_DIGITS)

HexDigits == {"0", "1", "2", "3", "4", "5", "6", "7", "8", "9",
              "a", "b", "c", "d", "e", "f", "A", "B", "C", "D", "E", "F"}

\* characters str.strip() removes
Whitespace == {" ", NL, "\t"}

RECURSIVE LStrip(_)
LStrip(s) == IF s # <<>> /\ Head(s) \in Whitespace THEN LStrip(Tail(s)) ELSE s

RECURSIVE RStrip(_)
RStrip(s) ==
    IF s # <<>> /\ s[Len(s)] \in Whitespace
    THEN RStrip(SubSeq(s, 1, Len(s) - 1))
    ELSE s

\* str.strip()
Strip(s) == RStrip(LStrip(s))

\* sub in s, for two Python strings
IsSubstring(sub, s) ==
    \E i \in 0..(Len(s) - Len(sub)) : SubSeq(s, i + 1, i + Len(sub)) = sub

\* the characters of a field name
FieldChars(f) ==
    CASE f = "chainId"  -> <<"c", "h", "a", "i", "n", "I", "d">>
      [] f = "address"  -> <<"a", "d", "d", "r", "e", "s", "s">>
      [] f = "name"     -> <<"n", "a", "m", "e">>
      [] f = "symbol"   -> <<"s", "y", "m", "b", "o", "l">>
      [] f = "decimals" -> <<"d", "e", "c", "i", "m", "a", "l", "s">>

(***************************************************************************)
(* JSON5 values as Python objects: a tag t and one payload field per type  *)
(*   int: i; bool: b; float: f, the value in tenths; str: s, a character   *)
(*   sequence; null: None; list: l, a sequence of values; dict: d, a       *)
(*   sequence of <<key, value>> pairs in insertion order                   *)
(***************************************************************************)
JInt(n) == [t |-> "int", i |-> n]
JBool(x) == [t |-> "bool", b |-> x]
JFloat(tenths) == [t |-> "float", f |-> tenths]
JStr(chars) == [t |-> "str", s |-> chars]
JNull == [t |-> "null"]
JList(xs) == [t |-> "list", l |-> xs]
JDict(pairs) == [t |-> "dict", d |-> pairs]

\* isinstance(x, int): bool is a subclass of int
IsInstanceInt(x) == x.t \in {"int", "bool"}

\* isinstance(x, str)
IsInstanceStr(x) == x.t = "str"

\* type(x).__name__
TypeName(x) == IF x.t = "null" THEN "NoneType" ELSE x.t

\* the value of an int or a bool in arithmetic and comparisons
IntOf(x) == IF x.t = "bool" THEN (IF x.b THEN 1 ELSE 0) ELSE x.i

\* a number in tenths
Tenths(x) == IF x.t = "float" THEN x.f ELSE 10 * IntOf(x)

IsNumber(x) == x.t \in {"int", "bool", "float"}

\* a == b
PyEq(a, b) ==
    IF IsNumber(a) /\ IsNumber(b) THEN Tenths(a) = Tenths(b)
    ELSE IF a.t # b.t THEN FALSE
    ELSE a = b

\* bool(x)
Truthy(x) ==
    CASE x.t = "null"  -> FALSE
      [] x.t = "bool"  -> x.b
      [] x.t = "int"   -> x.i # 0
      [] x.t = "float" -> x.f # 0
      [] x.t = "str"   -> Len(x.s) > 0
      [] x.t = "list"  -> Len(x.l) > 0
      [] x.t = "dict"  -> Len(x.d) > 0

\* key in data, for a dict
HasKey(data, k) == \E n \in 1..Len(data.d) : data.d[n][1] = k

\* data.get(k), for a dict
Get(data, k) ==
    IF HasKey(data, k)
    THEN data.d[CHOOSE n \in 1..Len(data.d) : data.d[n][1] = k][2]
    ELSE JNull

\* "field in data" for any document: [raised, value]
Contains(data, field) ==
    CASE data.t = "dict" -> [raised |-> "", value |-> HasKey(data, field)]
      [] data.t = "list" ->
            [raised |-> "",
             value |-> \E n \in 1..Len(data.l) :
                           PyEq(data.l[n], JStr(FieldChars(field)))]
      [] data.t = "str" ->
            [raised |-> "", value |-> IsSubstring(FieldChars(field), data.s)]
      [] OTHER -> [raised |-> "TypeError", value |-> FALSE]

(***************************************************************************)
(* is_valid_address: re.match(r"^0x[0-9A-Fa-f]{40}$", address)             *)
(***************************************************************************)
\* "$" without re.MULTILINE: at the end, or before a newline that ends the string
DollarMatchesAt(s, i) ==
    \/ i = Len(s) + 1
    \/ i = Len(s) /\ s[i] = NL

PatternMatches(s) ==
    /\ Len(s) >= ADDRESS_HEX_DIGITS + 2
    /\ s[1] = "0"
    /\ s[2] = "x"
    /\ \A i \in 3..(ADDRESS_HEX_DIGITS + 2) : s[i] \in HexDigits
    /\ DollarMatchesAt(s, ADDRESS_HEX_DIGITS + 3)

\* re.match raises TypeError unless given a string
is_valid_address(address) ==
    IF address.t # "str"
    THEN [raised |-> "TypeError", value |-> FALSE]
    ELSE [raised |-> "", value |-> PatternMatches(address.s)]

(***************************************************************************)
(* utils.web3: fetch_token_*_with_retry                                    *)
(* The chain's answers to one read are a script: the outcome of each       *)
(* attempt, [o |-> "ok", val |-> value], [o |-> "transient"] or            *)
(* [o |-> "permanent"].                                                    *)
(***************************************************************************)
\* FetchAttempt with the budget one short
RECURSIVE FetchAttemptOneShort(_, _)
FetchAttemptOneShort(script, attempt) ==
    LET a == script[attempt] IN
    IF a.o = "ok"
    THEN [raised |-> "", value |-> a.val, attempts |-> attempt]
    ELSE IF a.o = "permanent"
    THEN [raised |-> "FetchError", attempts |-> attempt]
    ELSE IF attempt >= RetryBudget - 1
    THEN [raised |-> "FetchError", attempts |-> attempt]
    ELSE FetchAttemptOneShort(script, attempt + 1)

RECURSIVE FetchAttempt(_, _)
FetchAttempt(script, attempt) ==
    LET a == script[attempt] IN
    IF a.o = "ok"
    THEN [raised |-> "", value |-> a.val, attempts |-> attempt]
    ELSE IF a.o = "permanent"
    THEN [raised |-> "FetchError", attempts |-> attempt]
    ELSE IF attempt >= RetryBudget
    THEN [raised |-> "FetchError", attempts |-> attempt]
    ELSE FetchAttempt(script, attempt + 1)

fetch_with_retry(script) == FetchAttempt(script, 1)

fetch_token_name_with_retry(chain) == fetch_with_retry(chain.name)
fetch_token_symbol_with_retry(chain) == fetch_with_retry(chain.symbol)
fetch_token_decimals_with_retry(chain) == fetch_with_retry(chain.decimals)

(***************************************************************************)
(* validate_onchain_metadata(data, web3): [errors, calls]                  *)
(* calls lists the fetches made, in order; chain holds the scripts of the  *)
(* contract at data's address.                                             *)
(***************************************************************************)
FetchCall(property, address, r) ==
    [property |-> property, address |-> address, attempts |-> r.attempts]

\* CheckProperty with the failed fetch swallowed
CheckPropertySilentFailure(data, property, r) ==
    IF r.raised # ""
    THEN <<>>
    ELSE IF ~PyEq(Get(data, property), r.value)
    THEN <<[kind |-> "OnchainMismatch", property |-> property,
            expected |-> r.value, got |-> Get(data, property)]>>
    ELSE <<>>

\* one try/except block: fetch, compare, append
CheckProperty(data, property, r) ==
    IF r.raised # ""
    THEN <<[kind |-> "FailedFetch", property |-> property, exc |-> r.raised]>>
    ELSE IF ~PyEq(Get(data, property), r.value)
    THEN <<[kind |-> "OnchainMismatch", property |-> property,
            expected |-> r.value, got |-> Get(data, property)]>>
    ELSE <<>>

\* IsZeroAddress with a zero missing from the constant
IsZeroAddressShort(address) ==
    PyEq(address, JStr(<<"0", "x">> \o Rep("0", ADDRESS_HEX_DIGITS - 1)))

\* address == ZERO_ADDRESS
IsZeroAddress(address) == PyEq(address, JStr(ZERO_ADDRESS))

\* validate_onchain_metadata with one try block around the three fetches
validate_onchain_metadata_one_try(data, chain) ==
    LET address == Get(data, "address")
        rn == fetch_token_name_with_retry(chain)
        rs == fetch_token_symbol_with_retry(chain)
        rd == fetch_token_decimals_with_retry(chain)
        cn == <<FetchCall("name", address, rn)>>
        cs == <<FetchCall("symbol", address, rs)>>
        cd == <<FetchCall("decimals", address, rd)>>
    IN
    IF ~Truthy(address)
    THEN [errors |-> <<[kind |-> "AddressMissing"]>>, calls |-> <<>>]
    ELSE IF IsZeroAddress(address)
    THEN [errors |-> <<>>, calls |-> <<>>]
    ELSE IF rn.raised # ""
    THEN [errors |-> CheckProperty(data, "name", rn), calls |-> cn]
    ELSE IF rs.raised # ""
    THEN [errors |-> CheckProperty(data, "name", rn)
                     \o CheckProperty(data, "symbol", rs),
          calls |-> cn \o cs]
    ELSE [errors |-> CheckProperty(data, "name", rn)
                     \o CheckProperty(data, "symbol", rs)
                     \o CheckProperty(data, "decimals", rd),
          calls |-> cn \o cs \o cd]

validate_onchain_metadata(data, chain) ==
    LET address == Get(data, "address")
        rn == fetch_token_name_with_retry(chain)
        rs == fetch_token_symbol_with_retry(chain)
        rd == fetch_token_decimals_with_retry(chain)
    IN
    IF ~Truthy(address)
    THEN [errors |-> <<[kind |-> "AddressMissing"]>>, calls |-> <<>>]
    ELSE IF IsZeroAddress(address)
    THEN [errors |-> <<>>, calls |-> <<>>]
    ELSE [errors |-> CheckProperty(data, "name", rn)
                     \o CheckProperty(data, "symbol", rs)
                     \o CheckProperty(data, "decimals", rd),
          calls |-> <<FetchCall("name", address, rn),
                      FetchCall("symbol", address, rs),
                      FetchCall("decimals", address, rd)>>]

(***************************************************************************)
(* validate_token_data(data, token_dir_path, web3): [raised, errors, calls]*)
(* dirName is token_dir_path.name; logo tells which logo files exist.      *)
(***************************************************************************)
ChainIdErrors(chain_id) ==
    IF ~IsInstanceInt(chain_id) \/ IntOf(chain_id) # EXPECTED_CHAIN_ID
    THEN <<[kind |-> "InvalidChainId", got |-> chain_id]>>
    ELSE <<>>

AddressErrors(address) ==
    IF ~is_valid_address(address).value
    THEN <<[kind |-> "InvalidAddress", got |-> address]>>
    ELSE <<>>

NameErrors(name) ==
    IF ~IsInstanceStr(name) \/ Strip(name.s) = <<>>
    THEN <<[kind |-> "InvalidName"]>>
    ELSE <<>>

SymbolErrors(symbol, dirName) ==
    IF ~IsInstanceStr(symbol) \/ Strip(symbol.s) = <<>>
    THEN <<[kind |-> "InvalidSymbol"]>>
    ELSE IF symbol.s # dirName
    THEN <<[kind |-> "FolderSymbolMismatch", folder |-> dirName, got |-> symbol]>>
    ELSE <<>>

DecimalsErrors(decimals) ==
    IF \/ ~IsInstanceInt(decimals)
       \/ ~(MIN_DECIMALS <= IntOf(decimals) /\ IntOf(decimals) <= MAX_DECIMALS)
    THEN <<[kind |-> "InvalidDecimals"]>>
    ELSE <<>>

LogoErrors(logo) ==
    IF ~logo.svg /\ ~logo.png THEN <<[kind |-> "LogoNotFound"]>> ELSE <<>>

\* isinstance(value, expected_type)
IsInstanceOf(value, typeName) ==
    IF typeName = "int" THEN IsInstanceInt(value) ELSE value.t = typeName

\* the loop over extensions.items()
RECURSIVE ExtensionItemErrors(_)
ExtensionItemErrors(items) ==
    IF items = <<>> THEN <<>>
    ELSE LET tag == items[1][1]
             value == items[1][2]
         IN (IF tag \in DOMAIN ALLOWED_EXTENSIONS
             THEN IF ~IsInstanceOf(value, ALLOWED_EXTENSIONS[tag])
                  THEN <<[kind |-> "InvalidExtensionType", tag |-> tag,
                          expectedType |-> ALLOWED_EXTENSIONS[tag],
                          gotType |-> TypeName(value)]>>
                  ELSE <<>>
             ELSE <<[kind |-> "InvalidExtensionTag", tag |-> tag]>>)
            \o ExtensionItemErrors(Tail(items))

ExtensionsErrors(data) ==
    IF ~HasKey(data, "extensions") THEN <<>>
    ELSE IF Get(data, "extensions").t # "dict"
    THEN <<[kind |-> "InvalidExtensions"]>>
    ELSE ExtensionItemErrors(Get(data, "extensions").d)

\* [field for field in REQUIRED_FIELDS if field not in data]
MissingFields(data) ==
    SelectSeq(REQUIRED_FIELDS, LAMBDA field : ~Contains(data, field).value)

\* the checks after the required-fields check, for a dict
SchemaErrors(data, dirName, logo) ==
    ChainIdErrors(Get(data, "chainId"))
    \o AddressErrors(Get(data, "address"))
    \o NameErrors(Get(data, "name"))
    \o SymbolErrors(Get(data, "symbol"), dirName)
    \o DecimalsErrors(Get(data, "decimals"))
    \o LogoErrors(logo)
    \o ExtensionsErrors(data)

Raise(exc) == [raised |-> exc, errors |-> <<>>, calls |-> <<>>]

\* validate_token_data without the return after the missing-fields message
validate_token_data_no_return(data, dirName, logo, chain) ==
    IF Contains(data, REQUIRED_FIELDS[1]).raised # ""
    THEN Raise(Contains(data, REQUIRED_FIELDS[1]).raised)
    ELSE IF data.t # "dict"
    THEN Raise("AttributeError")
    ELSE IF is_valid_address(Get(data, "address")).raised # ""
    THEN Raise(is_valid_address(Get(data, "address")).raised)
    ELSE LET onchain == validate_onchain_metadata(data, chain)
             missing == IF MissingFields(data) # <<>>
                        THEN <<[kind |-> "MissingFields",
                                fields |-> MissingFields(data)]>>
                        ELSE <<>>
         IN [raised |-> "",
             errors |-> missing \o SchemaErrors(data, dirName, logo)
                        \o onchain.errors,
             calls |-> onchain.calls]

validate_token_data(data, dirName, logo, chain) ==
    IF Contains(data, REQUIRED_FIELDS[1]).raised # ""
    THEN Raise(Contains(data, REQUIRED_FIELDS[1]).raised)
    ELSE IF MissingFields(data) # <<>>
    THEN [raised |-> "",
          errors |-> <<[kind |-> "MissingFields", fields |-> MissingFields(data)]>>,
          calls |-> <<>>]
    ELSE IF data.t # "dict"
    THEN Raise("AttributeError")
    ELSE IF is_valid_address(Get(data, "address")).raised # ""
    THEN Raise(is_valid_address(Get(data, "address")).raised)
    ELSE LET onchain == validate_onchain_metadata(data, chain) IN
         [raised |-> "",
          errors |-> SchemaErrors(data, dirName, logo) \o onchain.errors,
          calls |-> onchain.calls]

(***************************************************************************)
(* validate_token_directory(dir_path, web3): [raised, valid, errors, calls]*)
(* content is what the directory holds: data_json tells whether data.json  *)
(* is absent, fails to parse (ValueError), fails to open (OSError) or      *)
(* parses to content.data.                                                 *)
(***************************************************************************)
validate_token_directory(dirName, content) ==
    IF content.data_json = "absent"
    THEN [raised |-> "", valid |-> FALSE,
          errors |-> <<[kind |-> "DataJsonNotFound", folder |-> dirName]>>,
          calls |-> <<>>]
    ELSE IF content.data_json = "invalid_json5"
    THEN [raised |-> "", valid |-> FALSE,
          errors |-> <<[kind |-> "InvalidJson5"]>>, calls |-> <<>>]
    ELSE IF content.data_json = "unreadable"
    THEN [raised |-> "", valid |-> FALSE,
          errors |-> <<[kind |-> "CannotRead"]>>, calls |-> <<>>]
    ELSE LET r == validate_token_data(content.data, dirName,
                                      content.logo, content.chain)
         IN [raised |-> r.raised, valid |-> r.raised = "" /\ Len(r.errors) = 0,
             errors |-> r.errors, calls |-> r.calls]

(***************************************************************************)
(* get_token_dirs: the directories of mainnet/, sorted by name             *)
(***************************************************************************)
\* the characters of the names used here, in code point order
CodePoints == <<"A", "C", "D", "E", "M", "R", "S", "U", "X", "d", "s", "u", "x">>

CodeOf(c) == CHOOSE n \in 1..Len(CodePoints) : CodePoints[n] = c

RECURSIVE StrLess(_, _)
StrLess(a, b) ==
    IF b = <<>> THEN FALSE
    ELSE IF a = <<>> THEN TRUE
    ELSE IF Head(a) # Head(b) THEN CodeOf(Head(a)) < CodeOf(Head(b))
    ELSE StrLess(Tail(a), Tail(b))

RECURSIVE Sorted(_)
Sorted(names) ==
    IF names = {} THEN <<>>
    ELSE LET least == CHOOSE a \in names : \A b \in names \ {a} : StrLess(a, b)
         IN <<least>> \o Sorted(names \ {least})

get_token_dirs(entries) == Sorted({e.name : e \in {x \in entries : x.is_dir}})

(***************************************************************************)
(* main                                                                    *)
(***************************************************************************)
VARIABLES
    pc,         \* where main is: "start", "loop", "done"; a function run
                \* on its own: "call", "return"
    dataDir,    \* mainnet/: [exists, entries], an entry is [name, is_dir]
    rpc,        \* what get_web3_connection does: "ok", "ConnectionError", "Exception"
    web3,       \* "none" or "connected"
    tokenDirs,  \* token_dirs
    idx,        \* position of the for loop in token_dirs
    allValid,   \* all_valid
    results,    \* what validate_token_directory returned or raised, per directory
    output,     \* the verdict lines printed, with the errors listed under them
    exitCode,   \* main's return value, -1 while it runs
    content,    \* what the directory of the last iteration held
    args,       \* the arguments of a function run on its own
    result      \* what it returned

vars == <<pc, dataDir, rpc, web3, tokenDirs, idx, allValid, results, output,
          exitCode, content, args, result>>

\* NextAllValid with all_valid overwritten by each token
NextAllValidLast(all_valid, is_valid) == is_valid

\* all_valid after one more iteration (False once any token is invalid)
NextAllValid(all_valid, is_valid) == all_valid /\ is_valid

\* lines 293-298
FinalStatus(all_valid) == IF all_valid THEN 0 ELSE 1

Return(code) ==
    /\ pc' = "done"
    /\ exitCode' = code

\* main up to the loop: the data directory, the token directories, the connection
MainStart ==
    /\ pc = "start"
    /\ IF ~dataDir.exists
       THEN \* FileNotFoundError from get_data_directory
            /\ Return(1)
            /\ UNCHANGED <<tokenDirs, web3>>
       ELSE /\ tokenDirs' = get_token_dirs(dataDir.entries)
            /\ IF tokenDirs' = <<>>
               THEN Return(0) /\ UNCHANGED web3
               ELSE IF rpc = "ConnectionError"
               THEN Return(1) /\ UNCHANGED web3
               ELSE IF rpc # "ok"
               THEN \* caught by "except Exception"
                    Return(1) /\ UNCHANGED web3
               ELSE /\ web3' = "connected"
                    /\ pc' = "loop"
                    /\ UNCHANGED exitCode
    /\ UNCHANGED <<dataDir, rpc, idx, allValid, results, output, content, args, result>>

\* one iteration of the loop over token_dirs; held is what the directory holds
MainValidate(held) ==
    /\ pc = "loop"
    /\ idx <= Len(tokenDirs)
    /\ content' = held
    /\ LET r == validate_token_directory(tokenDirs[idx], held) IN
       /\ results' = Append(results, r)
       /\ IF r.raised # ""
          THEN \* caught by "except Exception"
               /\ Return(1)
               /\ UNCHANGED <<idx, allValid, output>>
          ELSE /\ output' = Append(output,
                                   [token |-> tokenDirs[idx],
                                    verdict |-> IF r.valid THEN "valid" ELSE "invalid",
                                    errors |-> IF r.valid THEN <<>> ELSE r.errors])
               /\ allValid' = NextAllValid(allValid, r.valid)
               /\ idx' = idx + 1
               /\ UNCHANGED <<pc, exitCode>>
    /\ UNCHANGED <<dataDir, rpc, web3, tokenDirs, args, result>>

\* after the loop
MainFinish ==
    /\ pc = "loop"
    /\ idx > Len(tokenDirs)
    /\ Return(FinalStatus(allValid))
    /\ UNCHANGED <<dataDir, rpc, web3, tokenDirs, idx, allValid, results, output,
                   content, args, result>>

(***************************************************************************)
(* The documents, directories and chain answers the behaviours range over *)
(***************************************************************************)
USDX == <<"U", "S", "D", "X">>
usdx == <<"u", "s", "d", "x">>
USDC == <<"U", "S", "D", "C">>
README == <<"R", "E", "A", "D", "M", "E">>
NameUSD == <<"U", "S", "D", " ", "X">>
NameOther == <<"U", "S", "D", " ", "Y">>

Addr(prefix, digit, n, suffix) == prefix \o Rep(digit, n) \o suffix

AddrA == Addr(<<"0", "x">>, "a", ADDRESS_HEX_DIGITS, <<>>)

\* the null address, written out
NullAddr == Addr(<<"0", "x">>, "0", ADDRESS_HEX_DIGITS, <<>>)

\* "0x" and 39, 40 or 41 times one character, then nothing, a newline or a space
AddressShapes ==
    { Addr(<<"0", "x">>, c, n, suffix) :
        c \in {"a", "F", "0", "g"},
        n \in (ADDRESS_HEX_DIGITS - 1)..(ADDRESS_HEX_DIGITS + 1),
        suffix \in {<<>>, <<NL>>, <<" ">>} }

AddressStrings ==
    AddressShapes
    \cup { <<>>,
           Addr(<<"0", "X">>, "a", ADDRESS_HEX_DIGITS, <<>>),
           Addr(<<" ", "0", "x">>, "a", ADDRESS_HEX_DIGITS, <<>>),
           Addr(<<NL, "0", "x">>, "a", ADDRESS_HEX_DIGITS, <<>>),
           Addr(<<"0", "x">>, "a", ADDRESS_HEX_DIGITS - 1, <<"G">>),
           Addr(<<"0", "x">>, "a", ADDRESS_HEX_DIGITS, <<NL, NL>>),
           Addr(<<"0", "x">>, "a", ADDRESS_HEX_DIGITS, <<" ", NL>>),
           Addr(<<"a", "a">>, "a", ADDRESS_HEX_DIGITS, <<>>) }

AddressValues ==
    { JStr(a) : a \in AddressStrings }
    \cup { JInt(123), JInt(0), JNull, JBool(TRUE), JList(<<>>) }

DecimalsValues ==
    { JInt(n) : n \in {MIN_DECIMALS - 1, MIN_DECIMALS, 6, 18,
                       MAX_DECIMALS, MAX_DECIMALS + 1} }
    \cup { JBool(TRUE), JBool(FALSE), JStr(<<"1", "8">>), JFloat(180), JFloat(185),
           JNull }

SymbolValues ==
    { JStr(USDX), JStr(usdx), JStr(<<>>), JStr(<<" ", " ">>),
      JStr(<<" ">> \o USDX), JInt(1), JNull }

NameValues == { JStr(NameUSD), JStr(NameOther), JStr(<<" ", NL>>), JInt(1) }

ChainIdValues == { JInt(EXPECTED_CHAIN_ID), JInt(1), JBool(TRUE),
                   JStr(<<"1", "4", "3">>), JFloat(10 * EXPECTED_CHAIN_ID) }

\* nothing, or the extensions entry of the document
ExtensionsEntries ==
    { <<>> }
    \cup { << <<"extensions", x>> >> :
            x \in { JStr(<<"x">>),
                    JDict(<<>>),
                    JDict(<< <<"coinGeckoId", JStr(<<"u", "s", "d">>)>> >>),
                    JDict(<< <<"coinGeckoId", JInt(123)>> >>),
                    JDict(<< <<"foo", JStr(<<"b", "a", "r">>)>> >>),
                    JDict(<< <<"foo", JInt(1)>>, <<"coinGeckoId", JNull>> >>) } }

DirNames == { USDX, usdx, USDC }

Logos == { [svg |-> TRUE, png |-> FALSE], [svg |-> FALSE, png |-> TRUE],
           [svg |-> FALSE, png |-> FALSE] }

Ok(val) == [o |-> "ok", val |-> val]
Transient == [o |-> "transient"]
Permanent == [o |-> "permanent"]

\* k transient failures, then the value
FailThenOk(k, val) == [n \in 1..RetryBudget |-> IF n <= k THEN Transient ELSE Ok(val)]
AlwaysTransient == [n \in 1..RetryBudget |-> Transient]
PermanentFirst == [n \in 1..RetryBudget |-> Permanent]

ScriptsOf(val) ==
    { FailThenOk(0, val), FailThenOk(RetryBudget - 1, val), AlwaysTransient,
      PermanentFirst }

\* the contract the documents below describe
MatchingChain ==
    [name |-> FailThenOk(0, JStr(NameUSD)),
     symbol |-> FailThenOk(0, JStr(USDX)),
     decimals |-> FailThenOk(0, JInt(6))]

FewChains ==
    { MatchingChain,
      [MatchingChain EXCEPT !.symbol = AlwaysTransient],
      [MatchingChain EXCEPT !.name = FailThenOk(1, JStr(NameOther)),
                            !.decimals = PermanentFirst] }

DefaultValues ==
    [chainId |-> JInt(EXPECTED_CHAIN_ID), address |-> JStr(AddrA),
     name |-> JStr(NameUSD), symbol |-> JStr(USDX), decimals |-> JInt(6)]

OddValues ==
    [chainId |-> JStr(<<"1", "4", "3">>), address |-> JInt(123),
     name |-> JNull, symbol |-> JStr(usdx), decimals |-> JInt(MAX_DECIMALS + 1)]

\* the dict with the fields of present, valued by values, and then entry
Doc(values, present, entry) ==
    LET fields == SelectSeq(REQUIRED_FIELDS, LAMBDA field : field \in present)
    IN JDict([n \in 1..Len(fields) |-> <<fields[n], values[fields[n]]>>] \o entry)

AllFields == { REQUIRED_FIELDS[n] : n \in 1..Len(REQUIRED_FIELDS) }

FullDoc(values, entry) == Doc(values, AllFields, entry)

\* documents that are no dict
OtherDocuments ==
    { JInt(5), JNull, JBool(TRUE), JFloat(15), JList(<<>>), JStr(<<>>),
      JStr(FieldChars("name")),
      JList([n \in 1..Len(REQUIRED_FIELDS) |-> JStr(FieldChars(REQUIRED_FIELDS[n]))]),
      JStr(FieldChars("chainId") \o FieldChars("address") \o FieldChars("name")
           \o FieldChars("symbol") \o FieldChars("decimals")) }

(***************************************************************************)
(* Spec: main over a data directory of at most MaxDirs token directories   *)
(***************************************************************************)
EntryUniverse ==
    { [name |-> n, is_dir |-> TRUE] : n \in DirNames }
    \cup { [name |-> README, is_dir |-> FALSE] }

DataDirs ==
    { [exists |-> FALSE, entries |-> {}] }
    \cup { [exists |-> TRUE, entries |-> E] :
            E \in { S \in SUBSET EntryUniverse :
                      Cardinality({e \in S : e.is_dir}) <= MaxDirs } }

MainDocuments ==
    { FullDoc(DefaultValues, <<>>),
      Doc(DefaultValues, AllFields \ {"decimals"}, <<>>),
      FullDoc([DefaultValues EXCEPT !.decimals = JInt(MAX_DECIMALS + 1)], <<>>),
      FullDoc([DefaultValues EXCEPT !.decimals = JBool(TRUE)], <<>>),
      FullDoc([DefaultValues EXCEPT !.address = JInt(123)], <<>>),
      FullDoc([DefaultValues EXCEPT !.address = JStr(NullAddr)], <<>>),
      FullDoc([DefaultValues EXCEPT !.address = JStr(NullAddr),
                                    !.symbol = JStr(usdx)], <<>>),
      FullDoc([DefaultValues EXCEPT
                 !.address = JStr(Addr(<<"0", "x">>, "a", ADDRESS_HEX_DIGITS, <<NL>>))],
              <<>>),
      JInt(5), JNull, JList(<<>>), JStr(FieldChars("name")) }

NoData == [data_json |-> "absent", data |-> JNull,
           logo |-> [svg |-> FALSE, png |-> FALSE], chain |-> MatchingChain]

DirContents ==
    { [NoData EXCEPT !.data_json = j] : j \in {"absent", "invalid_json5", "unreadable"} }
    \cup [data_json : {"ok"}, data : MainDocuments,
          logo : { [svg |-> TRUE, png |-> FALSE], [svg |-> FALSE, png |-> FALSE] },
          chain : FewChains]

NoArgs == [fn |-> "none"]
NoResult == [fn |-> "none"]

MainIdle ==
    /\ dataDir = [exists |-> FALSE, entries |-> {}]
    /\ rpc = "ok"
    /\ web3 = "none"
    /\ tokenDirs = <<>>
    /\ idx = 1
    /\ allValid = TRUE
    /\ results = <<>>
    /\ output = <<>>
    /\ exitCode = -1
    /\ content = NoData

Init ==
    /\ pc = "start"
    /\ dataDir \in DataDirs
    /\ rpc \in {"ok", "ConnectionError", "Exception"}
    /\ web3 = "none"
    /\ tokenDirs = <<>>
    /\ idx = 1
    /\ allValid = TRUE
    /\ results = <<>>
    /\ output = <<>>
    /\ exitCode = -1
    /\ content = NoData
    /\ args = NoArgs
    /\ result = NoResult

Next ==
    \/ MainStart
    \/ \E held \in DirContents : MainValidate(held)
    \/ MainFinish

Spec == Init /\ [][Next]_vars

(***************************************************************************)
(* SpecTokenData: validate_token_data on one document                      *)
(***************************************************************************)
TokenDataArgs ==
    \* any set of required fields present
    [data : { Doc(values, present, entry) :
                values \in {DefaultValues, OddValues},
                present \in SUBSET AllFields,
                entry \in { <<>>, << <<"extensions", JStr(<<"x">>)>> >> } },
     dirName : {USDX, usdx},
     logo : { [svg |-> TRUE, png |-> FALSE], [svg |-> FALSE, png |-> FALSE] },
     chain : { MatchingChain, [MatchingChain EXCEPT !.symbol = AlwaysTransient] }]
    \cup
    \* every address, decimals and symbol
    [data : { FullDoc([DefaultValues EXCEPT !.address = a, !.decimals = d,
                                            !.symbol = sym], <<>>) :
                a \in AddressValues, d \in DecimalsValues, sym \in SymbolValues },
     dirName : {USDX, usdx},
     logo : { [svg |-> TRUE, png |-> FALSE] },
     chain : { MatchingChain }]
    \cup
    \* every chainId, name, extensions, logo and chain
    [data : { FullDoc([DefaultValues EXCEPT !.chainId = c, !.name = nm,
                                            !.address = a], entry) :
                c \in ChainIdValues, nm \in NameValues,
                a \in { JStr(AddrA), JStr(NullAddr) },
                entry \in ExtensionsEntries },
     dirName : {USDX},
     logo : Logos,
     chain : FewChains]
    \cup
    [data : OtherDocuments, dirName : {USDX},
     logo : { [svg |-> TRUE, png |-> FALSE] }, chain : { MatchingChain }]

InitTokenData ==
    /\ pc = "call"
    /\ args \in TokenDataArgs
    /\ result = NoResult
    /\ MainIdle

CallValidateTokenData ==
    /\ pc = "call"
    /\ result' = validate_token_data(args.data, args.dirName, args.logo, args.chain)
    /\ pc' = "return"
    /\ UNCHANGED <<dataDir, rpc, web3, tokenDirs, idx, allValid, results, output,
                   exitCode, content, args>>

NextTokenData == CallValidateTokenData

SpecTokenData == InitTokenData /\ [][NextTokenData]_vars

(***************************************************************************)
(* SpecOnchain: validate_onchain_metadata on one document and one contract *)
(***************************************************************************)
OnchainAddresses ==
    { JStr(AddrA), JStr(NullAddr), JStr(<<>>), JNull, JInt(0), JInt(123),
      JBool(FALSE),
      JStr(Addr(<<"0", "X">>, "0", ADDRESS_HEX_DIGITS, <<>>)),
      JStr(Addr(<<"0", "x">>, "0", ADDRESS_HEX_DIGITS - 1, <<>>)) }

OnchainChains ==
    [name : ScriptsOf(JStr(NameUSD)),
     symbol : ScriptsOf(JStr(USDX)),
     decimals : ScriptsOf(JInt(6)) \cup { FailThenOk(0, JInt(1)) }]

OnchainArgs ==
    [data : { Doc([DefaultValues EXCEPT !.address = a, !.name = nm, !.symbol = sym,
                                        !.decimals = d], present, <<>>) :
                a \in OnchainAddresses,
                nm \in { JStr(NameUSD), JStr(NameOther) },
                sym \in { JStr(USDX), JStr(usdx) },
                d \in { JInt(6), JInt(18), JBool(TRUE), JFloat(60) },
                present \in { AllFields, AllFields \ {"address"},
                              AllFields \ {"name"} } },
     chain : OnchainChains]

InitOnchain ==
    /\ pc = "call"
    /\ args \in OnchainArgs
    /\ result = NoResult
    /\ MainIdle

CallValidateOnchainMetadata ==
    /\ pc = "call"
    /\ result' = validate_onchain_metadata(args.data, args.chain)
    /\ pc' = "return"
    /\ UNCHANGED <<dataDir, rpc, web3, tokenDirs, idx, allValid, results, output,
                   exitCode, content, args>>

NextOnchain == CallValidateOnchainMetadata

SpecOnchain == InitOnchain /\ [][NextOnchain]_vars

(***************************************************************************)
(* SpecFetch: one fetch_token_*_with_retry call against every script       *)
(***************************************************************************)
FetchArgs ==
    [script : [1..RetryBudget ->
                 { Ok(JInt(6)), Ok(JInt(18)), Transient, Permanent }]]

InitFetch ==
    /\ pc = "call"
    /\ args \in FetchArgs
    /\ result = NoResult
    /\ MainIdle

CallFetch ==
    /\ pc = "call"
    /\ result' = fetch_with_retry(args.script)
    /\ pc' = "return"
    /\ UNCHANGED <<dataDir, rpc, web3, tokenDirs, idx, allValid, results, output,
                   exitCode, content, args>>

NextFetch == CallFetch

SpecFetch == InitFetch /\ [][NextFetch]_vars

(***************************************************************************)
(* Properties                                                              *)
(***************************************************************************)
Properties == <<"name", "symbol", "decimals">>

Kinds(errors) == { errors[n].kind : n \in 1..Len(errors) }

Keys(data) == { data.d[n][1] : n \in 1..Len(data.d) }

\* a dict holding every required field
Complete(data) == data.t = "dict" /\ AllFields \subseteq Keys(data)

\* "0x" and exactly 40 hexadecimal digits, nothing before or after
IsHexAddress(value) ==
    /\ value.t = "str"
    /\ Len(value.s) = 42
    /\ value.s[1] = "0"
    /\ value.s[2] = "x"
    /\ \A n \in 3..42 : value.s[n] \in HexDigits

\* validate_onchain_metadata got an address that is neither empty nor null
Fetches(data) ==
    /\ Truthy(Get(data, "address"))
    /\ Get(data, "address") # JStr(NullAddr)

\* C1: in every run of main that connected to the RPC endpoint, every token
\* directory gets exactly one verdict line, whatever its data.json holds.
C1_EveryDirectoryGetsAVerdict ==
    (pc = "done" /\ web3 = "connected") =>
        /\ Len(output) = Len(tokenDirs)
        /\ \A n \in 1..Len(tokenDirs) :
              /\ output[n].token = tokenDirs[n]
              /\ output[n].verdict \in {"valid", "invalid"}

\* C2: on an address that is neither empty nor null, validate_onchain_metadata
\* calls the name, symbol and decimals fetch once each, in that order, whatever
\* the three fetches do.
C2_EachFetchOnceInOrder ==
    (pc = "return" /\ Fetches(args.data)) =>
        /\ [n \in 1..Len(result.calls) |-> result.calls[n].property] = Properties
        /\ \A n \in 1..Len(result.calls) :
              result.calls[n].address = Get(args.data, "address")

C2_Witness ==
    /\ pc = "return"
    /\ Fetches(args.data)
    /\ args.chain.name = AlwaysTransient
    /\ args.chain.symbol = PermanentFirst
    /\ Len(result.calls) = 3

\* what one fetch did, against the declared value: "raised", "equal", "different"
FetchOutcome(data, chain, property) ==
    LET r == fetch_with_retry(chain[property]) IN
    IF r.raised # "" THEN "raised"
    ELSE IF PyEq(Get(data, property), r.value) THEN "equal"
    ELSE "different"

\* C3: on an address that is neither empty nor null, validate_onchain_metadata
\* returns one message per property whose fetch raised (a failed-fetch message)
\* or whose value differs from the declared one (a mismatch message), none for
\* a property that matches, in the order name, symbol, decimals.
C3_OneMessagePerFailedOrDifferentProperty ==
    (pc = "return" /\ Fetches(args.data)) =>
        LET reported == SelectSeq(Properties,
                LAMBDA p : FetchOutcome(args.data, args.chain, p) # "equal")
        IN /\ Len(result.errors) = Len(reported)
           /\ Len(result.errors) <= 3
           /\ \A n \in 1..Len(reported) :
                 /\ result.errors[n].property = reported[n]
                 /\ result.errors[n].kind =
                        IF FetchOutcome(args.data, args.chain, reported[n]) = "raised"
                        THEN "FailedFetch"
                        ELSE "OnchainMismatch"

C3_Witness ==
    /\ pc = "return"
    /\ Fetches(args.data)
    /\ FetchOutcome(args.data, args.chain, "name") = "raised"
    /\ FetchOutcome(args.data, args.chain, "symbol") = "equal"
    /\ FetchOutcome(args.data, args.chain, "decimals") = "different"
    /\ Len(result.errors) = 2

\* C4: a fetch whose attempts fail transiently until one succeeds within the
\* budget (attempts 1 and 2 fail, attempt 3 succeeds) returns that value and
\* raises nothing; a fetch whose every attempt fails transiently raises
\* FetchError after exactly RetryBudget attempts.
C4_RetryWithinBudget ==
    pc = "return" =>
        /\ \A k \in 1..RetryBudget :
              ( /\ \A n \in 1..(k - 1) : args.script[n] = Transient
                /\ args.script[k].o = "ok" )
              => /\ result.raised = ""
                 /\ result.value = args.script[k].val
                 /\ result.attempts = k
        /\ (\A n \in 1..RetryBudget : args.script[n] = Transient)
              => /\ result.raised = "FetchError"
                 /\ result.attempts = RetryBudget

C4_Witness ==
    /\ pc = "return"
    /\ args.script = <<Transient, Transient, Ok(JInt(18))>>
    /\ result.raised = ""
    /\ result.attempts = 3

\* C5: for a descriptor missing at least one required field, validate_token_data
\* returns exactly one error, the missing-fields message naming exactly the
\* missing fields, and makes no other check and no fetch.
C5_MissingFieldsShortCircuit ==
    (pc = "return" /\ args.data.t = "dict" /\ ~Complete(args.data)) =>
        /\ result.raised = ""
        /\ Len(result.errors) = 1
        /\ result.errors[1].kind = "MissingFields"
        /\ result.errors[1].fields =
              SelectSeq(REQUIRED_FIELDS, LAMBDA field : field \notin Keys(args.data))
        /\ result.calls = <<>>

C5_Witness ==
    /\ pc = "return"
    /\ Keys(args.data) = {"chainId", "address", "symbol", "extensions"}
    /\ Get(args.data, "address") = JInt(123)
    /\ ~args.logo.svg
    /\ Len(result.errors) = 1

\* C6: main returns 0 exactly when every token directory produced zero errors
\* (also when there is no token directory), and 1 when a token produced an
\* error, the connection failed or an unexpected failure reached the top level.
C6_ExitStatus ==
    pc = "done" =>
        /\ exitCode \in {0, 1}
        /\ exitCode = 0 <=>
              /\ dataDir.exists
              /\ \/ \A e \in dataDir.entries : ~e.is_dir
                 \/ /\ rpc = "ok"
                    /\ Len(results) = Cardinality({e \in dataDir.entries : e.is_dir})
                    /\ \A n \in 1..Len(results) :
                          results[n].raised = "" /\ results[n].errors = <<>>

C6_Witness ==
    /\ pc = "done"
    /\ exitCode = 0
    /\ Len(results) = 2

\* C7: for the null address validate_onchain_metadata returns no error and
\* makes no fetch, whatever name, symbol and decimals are declared.
C7_NullAddressSkipsOnchain ==
    (pc = "return" /\ Get(args.data, "address") = JStr(NullAddr)) =>
        /\ result.errors = <<>>
        /\ result.calls = <<>>

C7_Witness ==
    /\ pc = "return"
    /\ Get(args.data, "address") = JStr(NullAddr)
    /\ Get(args.data, "name") = JStr(NameOther)
    /\ Get(args.data, "decimals") = JInt(18)
    /\ args.chain.symbol = AlwaysTransient
    /\ result.errors = <<>>

\* C8: for a descriptor with a string address, validate_token_data reports an
\* invalid-address error if and only if the address is not exactly "0x" followed
\* by exactly 40 hexadecimal digits.
C8_InvalidAddressIffNotHex ==
    (pc = "return" /\ Complete(args.data) /\ Get(args.data, "address").t = "str") =>
        ("InvalidAddress" \in Kinds(result.errors)
            <=> ~IsHexAddress(Get(args.data, "address")))

\* C9: for a descriptor validate_token_data returns a result for, it reports an
\* invalid-decimals error if and only if decimals is not an integer (a string,
\* a float, a boolean, null) or is an integer outside 0..36.
C9_InvalidDecimalsIffNotInRange ==
    (pc = "return" /\ Complete(args.data) /\ result.raised = "") =>
        ("InvalidDecimals" \in Kinds(result.errors)
            <=> ~( /\ Get(args.data, "decimals").t = "int"
                   /\ Get(args.data, "decimals").i >= 0
                   /\ Get(args.data, "decimals").i <= 36 ))

\* C10: for a descriptor with all required fields whose symbol is a non-blank
\* string, validate_token_data reports no folder-symbol mismatch when the symbol
\* equals the directory name, and a mismatch naming both when it differs.
C10_SymbolMatchesDirectory ==
    ( /\ pc = "return"
      /\ Complete(args.data)
      /\ Get(args.data, "symbol").t = "str"
      /\ Strip(Get(args.data, "symbol").s) # <<>> ) =>
        IF Get(args.data, "symbol").s = args.dirName
        THEN "FolderSymbolMismatch" \notin Kinds(result.errors)
        ELSE \E n \in 1..Len(result.errors) :
                /\ result.errors[n].kind = "FolderSymbolMismatch"
                /\ result.errors[n].folder = args.dirName
                /\ result.errors[n].got = Get(args.data, "symbol")

=============================================================================
